---- MODULE Spec2Model ----
(***************************************************************************)
(* Model of the media player of src/src/media/mod.rs: the Player state     *)
(* machine, its command channel and the idle callback that applies one     *)
(* command per tick.  The streaming engine (a GStreamer playbin) is        *)
(* modelled by its state and its "uri" property, with every requested      *)
(* state change succeeding.  The play_queue module is not part of the      *)
(* sources at hand; PlayQueue is modelled from its specified contract,     *)
(* with the cursor kept as a 0-based index that is "undefined" exactly     *)
(* when it is not an index of the sequence (the empty queue).  The         *)
(* playbin's "about-to-finish" signal is an event of the engine that no   *)
(* code of the Player handles.  FairSpec adds the scheduling of the idle   *)
(* callback by the main loop.                                              *)
(***************************************************************************)
EXTENDS Integers, Sequences, FiniteSets, TLC

\* ------------------------------------------------------------------ bounds

\* Number of commands the senders put on the channel in one behaviour.
MaxCmds == 5

\* The same number for the behaviours checked under fair scheduling.
MaxFairCmds == 3

\* ------------------------------------------------------------------ values

\* Two tracks; only `file` is read by the player.
TrackA == [id |-> 1, file |-> "a.ogg"]
TrackB == [id |-> 2, file |-> "b.ogg"]
Track == {TrackA, TrackB}

\* Option::None of current()/next()/previous().
None == [id |-> 0, file |-> ""]

\* The "uri" property of a playbin that was never given one.
NoUri == ""

\* PlayerCommand
PlayerCommand ==
    {[cmd |-> "Queue", track |-> t] : t \in Track}
      \cup {[cmd |-> c, track |-> None] :
              c \in {"Play", "Pause", "Stop", "Next", "Previous", "Kill"}}

Cmd(c) == [cmd |-> c, track |-> None]

\* impl From<gst::State> for StreamState
StreamStateFrom(state) ==
    CASE state = "Playing" -> "Playing"
      [] state = "Paused" -> "Paused"
      [] state \in {"Null", "Ready", "VoidPending"} -> "Stopped"

\* ------------------------------------------------------------------ PlayQueue

\* PlayQueue::new(): no items, cursor at the start.
PlayQueue_new == [items |-> <<>>, position |-> 0]

\* The cursor is defined when it is an index of the sequence.
PlayQueue_has_current(q) == q.position < Len(q.items)

\* PlayQueue::append
PlayQueue_append(q, item) == [q EXCEPT !.items = Append(@, item)]

\* PlayQueue::current
PlayQueue_current(q) ==
    IF PlayQueue_has_current(q) THEN q.items[q.position + 1] ELSE None

\* next() that steps without looking for a successor.
PlayQueue_next_unchecked(q) == [q EXCEPT !.position = @ + 1]

\* PlayQueue::next: the queue after the call; the result is
\* PlayQueue_next_result.
PlayQueue_next(q) ==
    IF q.position + 1 < Len(q.items)
    THEN [q EXCEPT !.position = @ + 1]
    ELSE q

PlayQueue_next_result(q) ==
    IF q.position + 1 < Len(q.items) THEN q.items[q.position + 2] ELSE None

\* PlayQueue::previous
PlayQueue_previous(q) ==
    IF q.position > 0 THEN [q EXCEPT !.position = @ - 1] ELSE q

\* PlayQueue::reset
PlayQueue_reset(q) == [q EXCEPT !.position = 0]

\* ------------------------------------------------------------------ AudioStreamer

\* AudioStreamer::new(): a playbin in state Null without a uri.  `starts`
\* counts the calls of start().
AudioStreamer_new == [state |-> "Null", uri |-> NoUri, starts |-> 0]

\* Streamable::queue
Streamer_queue(s, uri) == [s EXCEPT !.uri = uri]

\* Streamable::start
Streamer_start(s) == [s EXCEPT !.state = "Playing", !.starts = @ + 1]

\* Streamable::stop
Streamer_stop(s) == [s EXCEPT !.state = "Null"]

\* Streamable::pause
Streamer_pause(s) == [s EXCEPT !.state = "Paused"]

\* Streamable::state
Streamer_state(s) == StreamStateFrom(s.state)

\* ------------------------------------------------------------------ Player

\* A Player value: p.is_looping, p.play_queue, p.streamer, and p.panicked,
\* which is set when an assert! of a method fails (the process ends).
Player_new ==
    [is_looping |-> FALSE,
     play_queue |-> PlayQueue_new,
     streamer   |-> AudioStreamer_new,
     panicked   |-> FALSE]

\* Player::is_playing
is_playing(p) == Streamer_state(p.streamer) = "Playing"

\* Player::current_track
current_track(p) == PlayQueue_current(p.play_queue)

\* queue that puts the track in front of the others.
queue_front(p, track) ==
    [p EXCEPT !.play_queue.items = <<track>> \o @]

\* Player::queue
queue(p, track) ==
    [p EXCEPT !.play_queue = PlayQueue_append(@, track)]

\* play without its assertion: a second Play restarts the track.
play_no_assert(p) ==
    IF p.panicked THEN p
    ELSE IF current_track(p) # None
    THEN [p EXCEPT !.streamer =
            Streamer_start(Streamer_queue(@, current_track(p).file))]
    ELSE p

\* play without the test for a current track: the stream is started anyway.
play_always(p) ==
    IF p.panicked THEN p
    ELSE IF Streamer_state(p.streamer) = "Playing"
    THEN [p EXCEPT !.panicked = TRUE]
    ELSE IF current_track(p) # None
    THEN [p EXCEPT !.streamer =
            Streamer_start(Streamer_queue(@, current_track(p).file))]
    ELSE [p EXCEPT !.streamer = Streamer_start(@)]

\* play that starts the stream without giving it the track's file.
play_no_uri(p) ==
    IF p.panicked THEN p
    ELSE IF Streamer_state(p.streamer) = "Playing"
    THEN [p EXCEPT !.panicked = TRUE]
    ELSE IF current_track(p) # None
    THEN [p EXCEPT !.streamer = Streamer_start(@)]
    ELSE p

\* Player::play
play(p) ==
    IF p.panicked THEN p
    ELSE IF Streamer_state(p.streamer) = "Playing"
    THEN [p EXCEPT !.panicked = TRUE]
    ELSE IF current_track(p) # None
    THEN [p EXCEPT !.streamer =
            Streamer_start(Streamer_queue(@, current_track(p).file))]
    ELSE p

\* pause with the assertion of play: it refuses a playing stream.
pause_assert_playing(p) ==
    IF p.panicked THEN p
    ELSE IF Streamer_state(p.streamer) = "Playing"
    THEN [p EXCEPT !.panicked = TRUE]
    ELSE [p EXCEPT !.streamer = Streamer_pause(@)]

\* Player::pause
pause(p) ==
    IF p.panicked THEN p
    ELSE IF Streamer_state(p.streamer) = "Paused"
    THEN [p EXCEPT !.panicked = TRUE]
    ELSE [p EXCEPT !.streamer = Streamer_pause(@)]

\* stop without the is_playing test: a paused stream is stopped too.
stop_always(p) ==
    IF p.panicked THEN p
    ELSE [p EXCEPT !.streamer = Streamer_stop(@)]

\* stop that also takes the queue back to its first track.
stop_resets_queue(p) ==
    IF p.panicked THEN p
    ELSE IF is_playing(p)
    THEN [p EXCEPT !.streamer = Streamer_stop(@),
                   !.play_queue = PlayQueue_reset(@)]
    ELSE [p EXCEPT !.play_queue = PlayQueue_reset(@)]

\* Player::stop
stop(p) ==
    IF p.panicked THEN p
    ELSE IF is_playing(p)
    THEN [p EXCEPT !.streamer = Streamer_stop(@)]
    ELSE p

\* next_track that forgets to stop the stream before it plays.
next_track_no_stop(p) ==
    LET p2 == [p EXCEPT !.play_queue = PlayQueue_next(@)]
    IN  IF PlayQueue_next_result(p.play_queue) = None
        THEN IF p.is_looping
             THEN play([p2 EXCEPT !.play_queue = PlayQueue_reset(@)])
             ELSE p2
        ELSE play(p2)

\* next_track that never looks at is_looping: the end of the queue ends
\* playback.
next_track_no_loop(p) ==
    LET p1 == stop(p)
        p2 == [p1 EXCEPT !.play_queue = PlayQueue_next(@)]
    IN  IF PlayQueue_next_result(p1.play_queue) = None
        THEN p2
        ELSE play(p2)

\* next_track that loops without reset(): the last track is played again.
next_track_no_reset(p) ==
    LET p1 == stop(p)
        p2 == [p1 EXCEPT !.play_queue = PlayQueue_next(@)]
    IN  IF PlayQueue_next_result(p1.play_queue) = None
        THEN IF p.is_looping
             THEN play(p2)
             ELSE p2
        ELSE play(p2)

\* next_track that plays before it moves the cursor.
next_track_play_first(p) ==
    LET p1 == play(stop(p))
    IN  IF PlayQueue_next_result(p1.play_queue) = None
        THEN IF p.is_looping
             THEN [p1 EXCEPT !.play_queue = PlayQueue_reset(@)]
             ELSE p1
        ELSE [p1 EXCEPT !.play_queue = PlayQueue_next(@)]

\* Player::next_track
next_track(p) ==
    LET p1 == stop(p)
        p2 == [p1 EXCEPT !.play_queue = PlayQueue_next(@)]
    IN  IF PlayQueue_next_result(p1.play_queue) = None
        THEN IF p.is_looping
             THEN play([p2 EXCEPT !.play_queue = PlayQueue_reset(@)])
             ELSE p2
        ELSE play(p2)

\* previous_track that moves the cursor with next().
previous_track_forward(p) ==
    LET p1 == stop(p)
        p2 == [p1 EXCEPT !.play_queue = PlayQueue_next(@)]
    IN  play(p2)

\* Player::previous_track
previous_track(p) ==
    LET p1 == stop(p)
        p2 == [p1 EXCEPT !.play_queue = PlayQueue_previous(@)]
    IN  play(p2)

\* ------------------------------------------------------------------ state

VARIABLES
    player,     \* the Player value
    loop,       \* "created": not yet handed to event_listener;
                \* "running": the idle callback is installed;
                \* "done": the callback returned Continue(false)
    chan,       \* commands sent and not yet received
    sent,       \* every command sent, in order
    applied,    \* every command the callback has received, in order
    before,     \* the Player as the last run that received a command found it
    finishing,  \* the playbin has emitted "about-to-finish" for the stream
                \* it is playing
    budget      \* how many commands the senders send in this behaviour

vars == <<player, loop, chan, sent, applied, before, finishing, budget>>

Init ==
    /\ player = Player_new
    /\ loop = "created"
    /\ chan = <<>>
    /\ sent = <<>>
    /\ applied = <<>>
    /\ before = Player_new
    /\ finishing = FALSE
    /\ budget = MaxCmds

\* The owner sets the public field is_looping before it gives the Player
\* away to event_listener.
set_is_looping(b) ==
    /\ loop = "created"
    /\ player.is_looping # b
    /\ player' = [player EXCEPT !.is_looping = b]
    /\ UNCHANGED <<loop, chan, sent, applied, before, finishing, budget>>

\* Player::event_listener: creates the channel, installs the idle callback.
event_listener ==
    /\ loop = "created"
    /\ loop' = "running"
    /\ UNCHANGED <<player, chan, sent, applied, before, finishing, budget>>

\* tx.send(cmd) by a holder of the PlayerSender, while the receiver lives.
Send(cmd) ==
    /\ loop = "running"
    /\ ~player.panicked
    /\ Len(sent) < budget
    /\ chan' = Append(chan, cmd)
    /\ sent' = Append(sent, cmd)
    /\ UNCHANGED <<player, loop, applied, before, finishing, budget>>

\* tx.send(cmd) after the callback was removed and the receiver dropped with
\* it: send returns Err and the command goes nowhere.
Send_disconnected(cmd) ==
    /\ loop = "done"
    /\ Len(sent) < budget
    /\ sent' = Append(sent, cmd)
    /\ UNCHANGED <<player, loop, chan, applied, before, finishing, budget>>

\* rx.try_recv() returns Ok(cmd) with a command of kind c.
Pending(c) ==
    /\ loop = "running"
    /\ ~player.panicked
    /\ chan # <<>>
    /\ Head(chan).cmd = c

\* A handler that turns the signal into a Next on the command channel.
about_to_finish_advances ==
    /\ ~player.panicked
    /\ player.streamer.state = "Playing"
    /\ ~finishing
    /\ finishing' = TRUE
    /\ chan' = Append(chan, Cmd("Next"))
    /\ UNCHANGED <<player, loop, sent, applied, before, budget>>

\* The playbin emits "about-to-finish" while it plays, once for a stream.
\* The signal is connected to a handler only by AudioStreamer::event_listener,
\* which the Player never calls: no code of the player runs.
about_to_finish ==
    /\ ~player.panicked
    /\ player.streamer.state = "Playing"
    /\ ~finishing
    /\ finishing' = TRUE
    /\ UNCHANGED <<player, loop, chan, sent, applied, before, budget>>

\* The signal stays emitted for the stream while a handler leaves the
\* playbin in s2 after finding it in s: stopping it or starting it begins
\* a stream anew.
still_finishing(s, s2) ==
    finishing /\ s2.state # "Null" /\ s2.starts = s.starts

\* A receive that loses the command behind the one it returns.
Received_skips ==
    /\ chan' = IF Len(chan) > 1 THEN Tail(Tail(chan)) ELSE Tail(chan)
    /\ applied' = Append(applied, Head(chan))
    /\ before' = player
    /\ finishing' = still_finishing(player.streamer, player'.streamer)
    /\ UNCHANGED <<sent, budget>>

\* The received command leaves the channel; `before` keeps the Player as
\* this run of the callback found it.
Received ==
    /\ chan' = Tail(chan)
    /\ applied' = Append(applied, Head(chan))
    /\ before' = player
    /\ finishing' = still_finishing(player.streamer, player'.streamer)
    /\ UNCHANGED <<sent, budget>>

\* The runs of the idle callback, one for each arm of its match.  Each ends
\* with glib::Continue(should_continue).
TickQueue ==
    /\ Pending("Queue")
    /\ player' = queue(player, Head(chan).track)
    /\ loop' = "running"
    /\ Received

TickPlay ==
    /\ Pending("Play")
    /\ player' = play(player)
    /\ loop' = "running"
    /\ Received

TickPause ==
    /\ Pending("Pause")
    /\ player' = pause(player)
    /\ loop' = "running"
    /\ Received

TickStop ==
    /\ Pending("Stop")
    /\ player' = stop(player)
    /\ loop' = "running"
    /\ Received

TickNext ==
    /\ Pending("Next")
    /\ player' = next_track(player)
    /\ loop' = "running"
    /\ Received

TickPrevious ==
    /\ Pending("Previous")
    /\ player' = previous_track(player)
    /\ loop' = "running"
    /\ Received

\* The Kill arm without should_continue = false: the callback stays.
TickKill_continues ==
    /\ Pending("Kill")
    /\ player' = player
    /\ loop' = "running"
    /\ Received

\* Kill => should_continue = false: the callback is removed.
TickKill ==
    /\ Pending("Kill")
    /\ player' = player
    /\ loop' = "done"
    /\ Received

\* One run of the idle callback when try_recv finds nothing.
TickIdle ==
    /\ loop = "running"
    /\ ~player.panicked
    /\ chan = <<>>
    /\ UNCHANGED vars

Next ==
    \/ \E b \in BOOLEAN : set_is_looping(b)
    \/ event_listener
    \/ \E cmd \in PlayerCommand : Send(cmd)
    \/ \E cmd \in PlayerCommand : Send_disconnected(cmd)
    \/ TickQueue
    \/ TickPlay
    \/ TickPause
    \/ TickStop
    \/ TickNext
    \/ TickPrevious
    \/ TickKill
    \/ TickIdle
    \/ about_to_finish

Spec == Init /\ [][Next]_vars

\* A fresh Player whose senders send at most MaxFairCmds commands.
FairInit ==
    /\ player = Player_new
    /\ loop = "created"
    /\ chan = <<>>
    /\ sent = <<>>
    /\ applied = <<>>
    /\ before = Player_new
    /\ finishing = FALSE
    /\ budget = MaxFairCmds

\* A run of the idle callback that receives a command.
Tick ==
    \/ TickQueue
    \/ TickPlay
    \/ TickPause
    \/ TickStop
    \/ TickNext
    \/ TickPrevious
    \/ TickKill

\* The main loop runs its idle source again and again until the callback
\* returns Continue(false): a pending command is received in the end.
FairSpec == FairInit /\ [][Next]_vars /\ WF_vars(Tick)

\* ------------------------------------------------------------------ properties

\* The last run of the callback that received a command applied one of kind c;
\* `before` is the Player it found and `player` the Player it left.
Applied(c) == applied # <<>> /\ applied[Len(applied)].cmd = c

\* The StreamState the engine reports for the Player p.
engine(p) == Streamer_state(p.streamer)

\* The cursor of the Player p, and the tracks of its queue.
cursor(p) == p.play_queue.position
tracks(p) == p.play_queue.items

\* The cursor of p is on the last track of a non-empty queue.
AtLast(p) == tracks(p) # <<>> /\ cursor(p) + 1 = Len(tracks(p))

\* The cursor of p has a successor.
HasSuccessor(p) == cursor(p) + 1 < Len(tracks(p))

QueueA == [cmd |-> "Queue", track |-> TrackA]
QueueB == [cmd |-> "Queue", track |-> TrackB]

\* C1: Next without looping at the last track leaves the engine Stopped, the
\* cursor where it was and starts no playback, whatever the engine state
\* was before.
C1_NextAtEndStops ==
    (Applied("Next") /\ ~before.is_looping /\ AtLast(before)) =>
        /\ ~player.panicked
        /\ engine(player) = "Stopped"
        /\ cursor(player) = cursor(before)
        /\ player.streamer.starts = before.streamer.starts

\* C2: Next with looping at the last track of a non-empty queue puts the
\* cursor on the first track and leaves the engine Playing the first
\* track's URI.
C2_NextAtEndLoops ==
    (Applied("Next") /\ before.is_looping /\ AtLast(before)) =>
        /\ ~player.panicked
        /\ cursor(player) = 0
        /\ engine(player) = "Playing"
        /\ player.streamer.uri = tracks(before)[1].file
        /\ player.streamer.starts = before.streamer.starts + 1

C2_Witness ==
    /\ Applied("Next")
    /\ before.is_looping
    /\ tracks(before) = <<TrackB, TrackA>>
    /\ cursor(before) = 1
    /\ engine(before) = "Paused"
    /\ cursor(player) = 0
    /\ engine(player) = "Playing"
    /\ player.streamer.uri = TrackB.file

\* C3: with is_looping set on a fresh Player, Queue(A), Queue(B), Play,
\* Next, Next plays A after Play, B (cursor on B) after the first Next and
\* A again (cursor back on A) after the second Next.
C3_LoopingScenario ==
    LET s3 == <<QueueA, QueueB, Cmd("Play")>>
        s4 == Append(s3, Cmd("Next"))
        s5 == Append(s4, Cmd("Next"))
        Plays(t, i) == /\ ~player.panicked
                       /\ engine(player) = "Playing"
                       /\ player.streamer.uri = t.file
                       /\ cursor(player) = i
                       /\ current_track(player) = t
    IN  player.is_looping =>
            /\ applied = s3 => Plays(TrackA, 0)
            /\ applied = s4 => Plays(TrackB, 1)
            /\ applied = s5 => Plays(TrackA, 0)

C3_Witness ==
    /\ player.is_looping
    /\ applied = <<QueueA, QueueB, Cmd("Play"), Cmd("Next"), Cmd("Next")>>
    /\ engine(player) = "Playing"
    /\ player.streamer.uri = TrackA.file
    /\ player.streamer.starts = 3

\* C4: Next at a cursor i that has a successor moves the cursor to i+1 and
\* leaves the engine Playing the URI of track i+1, for every engine state
\* before and either value of is_looping.
C4_NextAdvances ==
    (Applied("Next") /\ HasSuccessor(before)) =>
        /\ ~player.panicked
        /\ cursor(player) = cursor(before) + 1
        /\ engine(player) = "Playing"
        /\ player.streamer.uri = tracks(before)[cursor(before) + 2].file
        /\ tracks(player) = tracks(before)

C4_Witness ==
    /\ Applied("Next")
    /\ tracks(before) = <<TrackA, TrackB>>
    /\ cursor(before) = 0
    /\ engine(before) = "Playing"
    /\ before.streamer.uri = TrackA.file
    /\ cursor(player) = 1
    /\ engine(player) = "Playing"
    /\ player.streamer.uri = TrackB.file

\* C5: Previous on a non-empty queue with the cursor at i leaves the cursor
\* at max(i-1, 0) and the engine Playing that track's URI; at the first
\* track the first track is started again.
C5_PreviousStepsBack ==
    (Applied("Previous") /\ tracks(before) # <<>>) =>
        LET i == cursor(before)
            j == IF i - 1 > 0 THEN i - 1 ELSE 0
        IN  /\ ~player.panicked
            /\ cursor(player) = j
            /\ engine(player) = "Playing"
            /\ player.streamer.uri = tracks(before)[j + 1].file
            /\ player.streamer.starts = before.streamer.starts + 1

C5_Witness ==
    /\ Applied("Previous")
    /\ tracks(before) = <<TrackA, TrackB>>
    /\ cursor(before) = 0
    /\ engine(before) = "Playing"
    /\ cursor(player) = 0
    /\ engine(player) = "Playing"
    /\ player.streamer.uri = TrackA.file
    /\ player.streamer.starts = 2

\* C6: Play is fatal exactly when the engine is Playing; in Paused or
\* Stopped it is never fatal.
C6_PlayFatalIffPlaying ==
    Applied("Play") => (player.panicked <=> engine(before) = "Playing")

C6_Witness ==
    /\ Applied("Play")
    /\ engine(before) = "Playing"
    /\ player.panicked

C8_PauseWithoutTrackDoesNothing ==
    (Applied("Pause") /\ current_track(before) = None) =>
        /\ ~player.panicked
        /\ player.streamer = before.streamer

\* C9: Stop is never fatal; from Playing it leaves the engine Stopped,
\* otherwise it leaves the engine as it was; cursor and queue are unchanged,
\* and a second Stop right after a Stop changes nothing.
C9_StopIdempotent ==
    Applied("Stop") =>
        /\ ~player.panicked
        /\ engine(before) = "Playing" => engine(player) = "Stopped"
        /\ engine(before) # "Playing" => player.streamer = before.streamer
        /\ player.play_queue = before.play_queue
        /\ player.is_looping = before.is_looping
        /\ (Len(applied) >= 2 /\ applied[Len(applied) - 1].cmd = "Stop") =>
               player = before

C9_Witness ==
    /\ Len(applied) >= 3
    /\ applied[Len(applied) - 2].cmd = "Pause"
    /\ applied[Len(applied) - 1].cmd = "Stop"
    /\ applied[Len(applied)].cmd = "Stop"
    /\ engine(player) = "Paused"
    /\ player.streamer.starts = 1

\* C10: once a Kill has been applied, no further command is applied and the
\* Player (queue, cursor, engine) never changes again; commands pending
\* behind the Kill stay where they are.
C10_KillIsFinal ==
    [][(\E i \in 1..Len(applied) : applied[i].cmd = "Kill") =>
           /\ applied' = applied
           /\ player' = player
           /\ chan' = chan
           /\ loop' = "done"]_vars

C10_Witness ==
    /\ loop = "done"
    /\ applied = <<QueueA, Cmd("Kill")>>
    /\ chan = <<Cmd("Play")>>
    /\ sent = <<QueueA, Cmd("Kill"), Cmd("Play"), Cmd("Next")>>
    /\ engine(player) = "Stopped"

\* s is a prefix of t.
IsPrefix(s, t) == Len(s) <= Len(t) /\ \A i \in 1..Len(s) : s[i] = t[i]

\* C11: commands are applied in the order they were sent: the applied
\* commands are always a prefix of the sent ones, the commands not yet
\* applied wait in that order, and one tick applies at most one command.
C11_AppliedInSendOrder ==
    /\ [](IsPrefix(applied, sent) /\ IsPrefix(applied \o chan, sent))
    /\ [][\/ applied' = applied
          \/ /\ chan # <<>>
             /\ applied' = Append(applied, Head(chan))
             /\ chan' = Tail(chan)]_vars

C11_Witness ==
    /\ applied = <<QueueA, Cmd("Play"), Cmd("Pause")>>
    /\ chan = <<Cmd("Next"), QueueB>>
    /\ sent = <<QueueA, Cmd("Play"), Cmd("Pause"), Cmd("Next"), QueueB>>

\* C12: Next and Previous are never fatal: the stop() they begin with makes
\* the assertion of the play() they end with hold, for every queue, cursor,
\* engine state and value of is_looping.
C12_NextPreviousNeverFatal ==
    (Applied("Next") \/ Applied("Previous")) =>
        /\ ~player.panicked
        /\ engine(stop(before)) # "Playing"

C12_Witness ==
    /\ Applied("Previous")
    /\ Len(applied) >= 2
    /\ applied[Len(applied) - 1].cmd = "Next"
    /\ engine(before) = "Playing"
    /\ before.is_looping
    /\ ~player.panicked

\* C13: on an empty queue Next and Previous change nothing: the queue stays
\* empty, the cursor undefined, the engine as it was, and no playback
\* starts, with and without looping.
C13_EmptyQueueNoOp ==
    ((Applied("Next") \/ Applied("Previous")) /\ tracks(before) = <<>>) =>
        /\ ~player.panicked
        /\ tracks(player) = <<>>
        /\ current_track(player) = None
        /\ cursor(player) = cursor(before)
        /\ player.streamer = before.streamer

C13_Witness ==
    /\ Applied("Next")
    /\ tracks(before) = <<>>
    /\ before.is_looping
    /\ engine(before) = "Paused"
    /\ player = before

\* C14: Queue(track) always succeeds and only appends: the queue is the old
\* queue followed by the track, and the cursor, the engine state, the loaded
\* URI and is_looping are unchanged.
C14_QueueAppends ==
    Applied("Queue") =>
        /\ ~player.panicked
        /\ tracks(player) =
               Append(tracks(before), applied[Len(applied)].track)
        /\ cursor(player) = cursor(before)
        /\ player.streamer = before.streamer
        /\ player.is_looping = before.is_looping

C14_Witness ==
    /\ Applied("Queue")
    /\ tracks(before) = <<TrackA, TrackB>>
    /\ cursor(before) = 1
    /\ engine(before) = "Playing"
    /\ tracks(player) = <<TrackA, TrackB, TrackA>>
    /\ cursor(player) = 1

\* C15: the cursor is always undefined (empty queue) or an index of the
\* queue: it is never negative and never past the last track.
C15_CursorValid ==
    /\ cursor(player) >= 0
    /\ tracks(player) = <<>> => cursor(player) = 0
    /\ tracks(player) # <<>> => cursor(player) < Len(tracks(player))

C15_Witness ==
    /\ Len(applied) = 5
    /\ applied[4].cmd = "Next"
    /\ applied[5].cmd = "Next"
    /\ ~player.is_looping
    /\ Len(tracks(player)) = 2
    /\ cursor(player) = 1

\* C17: Play on an engine that is not Playing: with a current track the
\* engine is Playing with that track's URI loaded; without one Play is a
\* silent no-op for engine state and URI; cursor and queue are unchanged.
C17_PlayLoadsCurrentTrack ==
    (Applied("Play") /\ engine(before) # "Playing") =>
        /\ ~player.panicked
        /\ player.play_queue = before.play_queue
        /\ IF current_track(before) # None
           THEN /\ engine(player) = "Playing"
                /\ player.streamer.uri = current_track(before).file
                /\ player.streamer.starts = before.streamer.starts + 1
           ELSE player.streamer = before.streamer

C17_Witness ==
    /\ Applied("Play")
    /\ engine(before) = "Paused"
    /\ tracks(before) = <<TrackB, TrackA>>
    /\ cursor(before) = 0
    /\ engine(player) = "Playing"
    /\ player.streamer.uri = TrackB.file
    /\ player.streamer.starts = 2

\* C18: whenever the engine is Playing, the queue has a current track and
\* the URI loaded into the engine is the file of the track at the cursor.
C18_PlayingIsCurrentTrack ==
    engine(player) = "Playing" =>
        /\ current_track(player) # None
        /\ player.streamer.uri = current_track(player).file

C18_Witness ==
    /\ engine(player) = "Playing"
    /\ tracks(player) = <<TrackA, TrackB, TrackA>>
    /\ cursor(player) = 1
    /\ player.streamer.uri = TrackB.file
    /\ Applied("Queue")

\* C20: once the Player is with the command loop, is_looping never changes,
\* the cursor changes only where a Next or a Previous is applied, and Play,
\* Pause, Stop, Kill and idle ticks leave cursor and queue as they are.
C20_LoopFrame ==
    [][loop # "created" =>
          /\ player'.is_looping = player.is_looping
          /\ cursor(player') # cursor(player) =>
                /\ applied' # applied
                /\ applied'[Len(applied')].cmd \in {"Next", "Previous"}
          /\ player'.play_queue # player.play_queue =>
                /\ applied' # applied
                /\ applied'[Len(applied')].cmd
                       \in {"Queue", "Next", "Previous"}]_vars

C20_Witness ==
    /\ Len(applied) = 5
    /\ {applied[i].cmd : i \in 3..5} = {"Stop", "Pause", "Play"}
    /\ player.is_looping
    /\ tracks(player) = <<TrackA, TrackB>>
    /\ cursor(player) = 0

\* C16: the engine's Completed signal is not handled: its emission changes
\* neither the cursor, the queue, the engine state nor the command channel,
\* and no command is applied by it.
C16_CompletedNotHandled ==
    [][(finishing' /\ ~finishing) =>
          /\ player' = player
          /\ chan' = chan
          /\ sent' = sent
          /\ applied' = applied
          /\ loop' = loop]_vars

C16_Witness ==
    /\ finishing
    /\ applied = <<QueueA, QueueB, Cmd("Play")>>
    /\ sent = applied
    /\ chan = <<>>
    /\ engine(player) = "Playing"
    /\ cursor(player) = 0
    /\ player.streamer.uri = TrackA.file

\* C19: under fair scheduling of the ticks and unless a fatal condition
\* occurs, every command sent ahead of the first Kill is eventually applied,
\* a Kill on the channel eventually ends the loop, and a loop with nothing
\* pending keeps running.
C19_CommandsEventuallyApplied ==
    /\ \A n \in 1..MaxFairCmds :
           (Len(sent) >= n /\ \A i \in 1..(n - 1) : sent[i].cmd # "Kill")
               ~> (player.panicked \/ (Len(applied) >= n /\ applied[n] = sent[n]))
    /\ (\E i \in 1..Len(chan) : chan[i].cmd = "Kill")
           ~> (player.panicked \/ loop = "done")
    /\ [][(loop = "running" /\ chan = <<>>) => loop' = "running"]_vars

C19_Witness ==
    /\ loop = "done"
    /\ ~player.panicked
    /\ applied = <<QueueA, Cmd("Play"), Cmd("Kill")>>
    /\ sent = applied
    /\ engine(player) = "Playing"

====
